---------------------------- MODULE Spec2Model ----------------------------
(***************************************************************************)
(* Process supervision and live log streaming of the nanoboard dashboard   *)
(* (src-tauri/src/logger.rs and src-tauri/src/process.rs).                 *)
(*                                                                         *)
(* The UI-facing commands are dispatched on a multi-threaded runtime, so   *)
(* every command is a sequence of steps of one of the Callers; the steps   *)
(* are cut at the places where the code takes or releases a lock, touches  *)
(* the file system or the process table, or suspends.                      *)
(*                                                                         *)
(* The log file is a sequence of lines; a line is [n, wide]: n bytes       *)
(* ending in a newline, made of 2-byte characters when wide (n odd) and of *)
(* 1-byte characters otherwise.  Offsets are byte offsets.                 *)
(***************************************************************************)
EXTENDS Integers, Sequences, FiniteSets, TLC

\* ------------------------------------------------------------------ bounds
MaxLines == 3          \* lines ever appended to the log file in one run
MaxTrunc == 1          \* external truncations of the log file in one run
MaxTasks == 2          \* tailer background tasks that may exist at once
MaxProcs == 2          \* worker processes that may exist at once
MaxOutput == 1         \* writes of a starting worker in one run
TimeBits == 3          \* bits of the integers that count seconds (64 in the code)
LineBytes == 2         \* bytes of an ordinary log line, its newline included

Callers == {"c1", "c2"}
TaskIds == 1..MaxTasks
NoTask  == 0
Pids    == 1..MaxProcs
NoPid   == 0

\* ------------------------------------------------------------------ state
VARIABLES
    \* the file system
    logDir,        \* ~/.nanobot/logs exists
    logExists,     \* ~/.nanobot/logs/nanobot.log exists
    logFile,       \* its content: a sequence of lines
    appended,      \* lines appended so far (bounds the run)
    truncs,        \* truncations so far (bounds the run)
    \* logger.rs: FileTracker and WatcherHandle
    position,      \* FileTracker.position
    lock,          \* the tokio Mutex around FileTracker and the read in progress
    running,       \* WatcherHandle.running
    task_handle,   \* WatcherHandle.task_handle: NoTask or a task
    tasks,         \* the spawned background tasks
    ev,            \* a modify event is queued for the task's watcher
    \* the operating system's process table and the clock
    procs,         \* the worker processes
    \* process.rs: PROCESS_CACHE and AppState.nanobot_process
    cache,         \* PROCESS_CACHE: Option<ProcessCheckCache>, with the age of last_update
    nanobot_process, \* AppState.nanobot_process: Option<ProcessManager>
    \* the callers of the commands
    pc,            \* where each caller is in its command
    file_size,     \* start_log_stream's local file_size
    task,          \* start_log_stream's local task
    port,          \* start_nanobot's local port
    status_running, \* get_status's local running
    log_size_before, \* start_nanobot's local log_size_before
    child,         \* start_nanobot's local child
    timer,         \* what is left of the caller's tokio::time::sleep
    ret,           \* what the caller's last command returned
    \* history of the streaming session (not program state)
    startOff,      \* the offset the cursor was initialised to
    emitted,       \* the byte offsets emitted in log-update events
    dup,           \* some byte offset was emitted more than once
    emitBy,        \* the path that emitted last: "event", "poll" or "none"
    truncated,     \* the file was truncated since start_log_stream measured it
    shortSeen,     \* the tailer's last look found the file shorter than the cursor,
                   \* and nothing was emitted since
    badResume,     \* after such a look the next emitted range did not start at 0
    skipped,       \* an event update found the lock held while content lay beyond the
                   \* cursor, and since then no read has emitted and no session begun
    ready,         \* the line a worker wrote during start_nanobot's wait, and what followed
    poisoned,      \* which std Mutex a panicking holder has poisoned
    found,         \* the last find_command: the command, the machine's answers, the result
    sinceInval,    \* invalidate_cache ran after the last process-table scan
    lastGet,       \* the last get_cached_nanobot_status: what it found and did
    allUp,         \* a matching worker ran all the time since the caller's command began
    allDown        \* no matching worker ran at any time since the caller's command began

fsVars   == <<logDir, logExists, logFile, appended, truncs>>
tailVars == <<position, lock, running, task_handle, tasks, ev>>
procVars == <<procs, cache, nanobot_process>>
pcVars   == <<pc, ret>>
lsLocals == <<file_size, task>>
snLocals == <<port, status_running, log_size_before, child, timer>>
tailHist == <<startOff, emitted, dup, emitBy, truncated, shortSeen, badResume, skipped>>
histVars == <<tailHist, ready, poisoned, found>>
obsVars  == <<sinceInval, lastGet, allUp, allDown>>
vars     == <<fsVars, tailVars, procVars, pcVars, lsLocals, snLocals, histVars, obsVars>>

\* ------------------------------------------------------------ the log file
Line(n, w) == [n |-> n, wide |-> w]

RECURSIVE SumLen(_)
SumLen(s) == IF s = <<>> THEN 0 ELSE Head(s).n + SumLen(Tail(s))

\* metadata().len(): 0 for a file that cannot be read (unwrap_or(0))
FileLen == IF logExists THEN SumLen(logFile) ELSE 0

Prefix(s, k) == [i \in 1..k |-> s[i]]

\* Option<T>: None is the empty sequence, Some(x) the sequence of x
None == <<>>
Some(x) == <<x>>

\* What a command returned: its status, the branch that returned it, the byte
\* range of the log file its message quotes, the port it reports.
RetFull(op, status, via, msg, prt) ==
    [op |-> op, status |-> status, via |-> via, msg |-> msg, port |-> prt]
Ret(op, status, via) == RetFull(op, status, via, None, None)
NoRet == Ret("none", "none", "none")

\* no line written during a verification wait is being followed
NoReady == [line |-> None, started |-> FALSE, called |-> FALSE]

\* no Mutex is poisoned
NotPoisoned == [cache |-> FALSE, record |-> FALSE]

Free == [by |-> "free", t |-> NoTask, pc |-> "none", size |-> 0]

\* a task's watcher exists from the end of its setup until the task is dropped
Watching(t) == tasks[t] \in {"sleep", "body", "bodyCancelled"}

\* a write or a truncation queues a modify event for every watcher
Notify == [t \in TaskIds |-> IF Watching(t) THEN TRUE ELSE ev[t]]


\* ------------------------------------------- the environment: the workers
\* A process is "starting" while it runs but does not show the fingerprint
\* yet (between fork and exec), "up" while it runs and shows it, "dead" once
\* it has exited and its parent may still wait for it.
NoProc == [st |-> "none", port |-> 0]
DefaultPort == 18790
Ports == {DefaultPort, DefaultPort + 1}

Matching(p) == procs[p].st = "up"

AnyMatching(table) == \E p \in Pids : table[p].st = "up"

FreePid(p) ==
    /\ procs[p].st = "none"
    /\ \A q \in Pids : procs[q].st = "none" => p <= q

\* what the callers' commands can tell about the workers since they began
Watched(table) ==
    /\ allUp' = [c \in Callers |-> pc[c] # "idle" /\ allUp[c] /\ AnyMatching(table)]
    /\ allDown' = [c \in Callers |-> pc[c] # "idle" /\ allDown[c] /\ ~AnyMatching(table)]

Began(c) ==
    /\ allUp' = [allUp EXCEPT ![c] = AnyMatching(procs)]
    /\ allDown' = [allDown EXCEPT ![c] = ~AnyMatching(procs)]

\* a worker is started outside the dashboard
ExternalStart(p, prt) ==
    /\ FreePid(p)
    /\ procs' = [procs EXCEPT ![p] = [st |-> "up", port |-> prt]]
    /\ Watched(procs')
    /\ UNCHANGED <<fsVars, tailVars, cache, nanobot_process, pcVars, lsLocals, snLocals>>
    /\ UNCHANGED <<histVars, sinceInval, lastGet>>

\* a spawned worker has exec'ed: the process table shows its name and command line
WorkerVisible(p) ==
    /\ procs[p].st = "starting"
    /\ procs' = [procs EXCEPT ![p].st = "up"]
    /\ Watched(procs')
    /\ UNCHANGED <<fsVars, tailVars, cache, nanobot_process, pcVars, lsLocals, snLocals>>
    /\ UNCHANGED <<histVars, sinceInval, lastGet>>

\* the process table without p: a child that start_nanobot still holds stays
\* to be waited for
Exited(table, p) ==
    [table EXCEPT ![p] = IF \E c \in Callers : child[c] = p
                         THEN [@ EXCEPT !.st = "dead"]
                         ELSE NoProc]

\* a worker exits on its own
WorkerExit(p) ==
    /\ procs[p].st \in {"starting", "up"}
    /\ procs' = Exited(procs, p)
    /\ Watched(procs')
    /\ UNCHANGED <<fsVars, tailVars, cache, nanobot_process, pcVars, lsLocals, snLocals>>
    /\ UNCHANGED <<histVars, sinceInval, lastGet>>

\* ------------------------------------------------- the environment: the log
LineSizes == {LineBytes}

Alive(p) == procs[p].st \in {"starting", "up"}

\* A worker writes one line to its stdout/stderr, which start_nanobot
\* redirected to the log file in append mode.
WorkerWrite(p, n, w) ==
    /\ Alive(p)
    /\ logExists
    /\ appended < MaxLines
    /\ logFile' = Append(logFile, Line(n, w))
    /\ appended' = appended + 1
    /\ ev' = Notify
    /\ UNCHANGED <<logDir, logExists, truncs, position, lock, running, task_handle, tasks>>
    /\ UNCHANGED <<procVars, pcVars, lsLocals, snLocals, tailHist, obsVars>>
    /\ ready' = IF ready.line = None /\ \E c \in Callers : pc[c] = "sn_wait" /\ child[c] = p
                THEN [ready EXCEPT !.line = Some(<<FileLen, FileLen + n>>)]
                ELSE ready
    /\ UNCHANGED <<poisoned, found>>

\* The log file is truncated or rotated from outside, keeping its first k lines.
Truncate(k) ==
    /\ logExists
    /\ truncs < MaxTrunc
    /\ k < Len(logFile)
    /\ logFile' = Prefix(logFile, k)
    /\ truncs' = truncs + 1
    /\ truncated' = TRUE
    /\ ev' = Notify
    /\ UNCHANGED <<logDir, logExists, appended, position, lock, running, task_handle, tasks>>
    /\ UNCHANGED <<procVars, pcVars, lsLocals, snLocals, obsVars>>
    /\ UNCHANGED <<startOff, emitted, dup, emitBy, shortSeen, badResume, skipped>>
    /\ UNCHANGED <<ready, poisoned, found>>

\* ------------------------------------------------------ logger.rs: the read
\* (mutant) read_new_lines without the truncation check
TruncationReset_Never(current_size, last_pos) == last_pos

\* read_new_lines, lines 114-117: a file shorter than the cursor was truncated
TruncationReset(current_size, last_pos) ==
    IF current_size < last_pos THEN 0 ELSE last_pos

\* read_new_lines, line 138: the cursor after the read
AdvancedPosition(current_size, eof) == current_size

\* (mutant) the comparison of line 270 the wrong way round
PollSeesNewContent_Reversed(current_size, pos) == current_size < pos

\* the poll loop, line 270: whether the poll path reads at all
PollSeesNewContent(current_size, pos) == current_size > pos

\* the task's state once the read that held the lock is over
AfterRead(t) ==
    IF lock.by = "poll"
    THEN [tasks EXCEPT ![t] = IF @ = "bodyCancelled" THEN "gone" ELSE "sleep"]
    ELSE tasks

\* read_new_lines, lines 106-122: open, metadata, truncation check, nothing new
ReadNewLines_Size ==
    /\ lock.pc = "meta"
    /\ LET current_size == FileLen
           last_pos     == TruncationReset(current_size, position)
       IN  /\ position' = last_pos
           /\ IF current_size = last_pos
              THEN /\ lock' = Free
                   /\ tasks' = AfterRead(lock.t)
              ELSE /\ lock' = [lock EXCEPT !.pc = "lines", !.size = current_size]
                   /\ UNCHANGED tasks
           /\ shortSeen' = (shortSeen \/ current_size < position)
    /\ UNCHANGED <<fsVars, running, task_handle, ev>>
    /\ UNCHANGED <<procVars, pcVars, lsLocals, snLocals, obsVars>>
    /\ UNCHANGED <<startOff, emitted, dup, emitBy, truncated, badResume, skipped>>
    /\ UNCHANGED <<ready, poisoned, found>>

\* read_new_lines, lines 124-140, and the caller's emit: seek to the cursor,
\* read every line up to the end of the file as it is now, move the cursor to
\* the size measured before, emit the lines read when there are any
ReadNewLines_Lines ==
    /\ lock.pc = "lines"
    /\ LET eof  == FileLen
           read == position .. (eof - 1)
       IN  /\ emitted' = emitted \cup read
           /\ dup' = (dup \/ (read \cap emitted # {}))
           /\ emitBy' = IF read # {} THEN lock.by ELSE emitBy
           /\ position' = AdvancedPosition(lock.size, eof)
           /\ shortSeen' = (shortSeen /\ read = {})
           /\ badResume' = (badResume \/ (shortSeen /\ read # {} /\ position # 0))
           /\ skipped' = FALSE
    /\ lock' = Free
    /\ tasks' = AfterRead(lock.t)
    /\ UNCHANGED <<fsVars, running, task_handle, ev>>
    /\ UNCHANGED <<procVars, pcVars, lsLocals, snLocals, startOff, truncated, obsVars>>
    /\ UNCHANGED <<ready, poisoned, found>>

\* ------------------------------------------- logger.rs: the background task
\* lines 200-257: create the watcher and watch the file; a failure ends the task
TaskSetup(t, ok) ==
    /\ tasks[t] = "setup"
    /\ tasks' = [tasks EXCEPT ![t] = IF ok THEN "sleep" ELSE "gone"]
    /\ UNCHANGED <<fsVars, position, lock, running, task_handle, ev>>
    /\ UNCHANGED <<procVars, pcVars, lsLocals, snLocals, histVars, obsVars>>

\* (mutant) a callback that takes the tracker whether or not it is locked
EventPath_Steals(t) ==
    /\ Watching(t)
    /\ ev[t]
    /\ ev' = [ev EXCEPT ![t] = FALSE]
    /\ lock' = [by |-> "event", t |-> t, pc |-> "meta", size |-> 0]
    /\ UNCHANGED <<fsVars, position, running, task_handle, tasks>>
    /\ UNCHANGED <<procVars, pcVars, lsLocals, snLocals, histVars, obsVars>>

\* lines 200-212: the watcher's callback on a modify event: try_lock or skip
EventPath(t) ==
    /\ Watching(t)
    /\ ev[t]
    /\ ev' = [ev EXCEPT ![t] = FALSE]
    /\ lock' = IF lock.by = "free"
               THEN [by |-> "event", t |-> t, pc |-> "meta", size |-> 0]
               ELSE lock
    /\ skipped' = (skipped \/ (lock.by # "free" /\ logExists /\ FileLen > position))
    /\ UNCHANGED <<fsVars, position, running, task_handle, tasks>>
    /\ UNCHANGED <<procVars, pcVars, lsLocals, snLocals, obsVars>>
    /\ UNCHANGED <<startOff, emitted, dup, emitBy, truncated, shortSeen, badResume>>
    /\ UNCHANGED <<ready, poisoned, found>>

\* the platform does not deliver the modify event
EventLost(t) ==
    /\ ev[t]
    /\ ev' = [ev EXCEPT ![t] = FALSE]
    /\ UNCHANGED <<fsVars, position, lock, running, task_handle, tasks>>
    /\ UNCHANGED <<procVars, pcVars, lsLocals, snLocals, histVars, obsVars>>

\* lines 261-273: one turn of the poll loop after its sleep: metadata,
\* try_lock, compare with the cursor
PollPath(t) ==
    /\ tasks[t] = "sleep"
    /\ IF logExists /\ lock.by = "free" /\ PollSeesNewContent(FileLen, position)
       THEN /\ lock' = [by |-> "poll", t |-> t, pc |-> "meta", size |-> 0]
            /\ tasks' = [tasks EXCEPT ![t] = "body"]
       ELSE UNCHANGED <<lock, tasks>>
    /\ shortSeen' = (shortSeen \/ (logExists /\ lock.by = "free" /\ FileLen < position))
    /\ UNCHANGED <<fsVars, position, running, task_handle, ev>>
    /\ UNCHANGED <<procVars, pcVars, lsLocals, snLocals, obsVars>>
    /\ UNCHANGED <<startOff, emitted, dup, emitBy, truncated, badResume, skipped>>
    /\ UNCHANGED <<ready, poisoned, found>>

\* -------------------------------------------- logger.rs: start_log_stream
\* (mutant) the check of lines 151 and 305 reading a flag that is always set
is_running_Always == TRUE

\* (mutant) the check of lines 151 and 305 reading a flag that is never set
is_running_Never == FALSE

\* WatcherHandle::is_running, lines 40-42
is_running == running

FreeTask(t) ==
    /\ tasks[t] \in {"none", "gone"}
    /\ task_handle # t
    /\ \A c \in Callers : task[c] # t
    /\ lock.t # t

\* lines 150-153: already running: return Ok at once
StartLogStream(c) ==
    /\ pc[c] = "idle"
    /\ IF is_running
       THEN /\ pc' = pc
            /\ ret' = [ret EXCEPT ![c] = Ret("start_log_stream", "Ok", "already_running")]
       ELSE /\ pc' = [pc EXCEPT ![c] = "ls_set"]
            /\ ret' = [ret EXCEPT ![c] = NoRet]
    /\ UNCHANGED <<fsVars, tailVars, procVars, lsLocals, snLocals, tailHist, obsVars>>
    /\ ready' = [ready EXCEPT !.called = @ \/ (~is_running /\ ready.started)]
    /\ UNCHANGED <<poisoned, found>>

\* line 155
StartLogStream_SetRunning(c) ==
    /\ pc[c] = "ls_set"
    /\ running' = TRUE
    /\ pc' = [pc EXCEPT ![c] = "ls_path"]
    /\ UNCHANGED <<fsVars, position, lock, task_handle, tasks, ev>>
    /\ UNCHANGED <<procVars, ret, lsLocals, snLocals, histVars, obsVars>>

\* lines 156-173: the path, the directory and the file (created when missing),
\* the file's size.  outcome: what the home directory lookup and the file
\* system answer.
StartLogStream_Prepare(c, outcome) ==
    /\ pc[c] = "ls_path"
    /\ CASE outcome = "no_home" ->
              /\ pc' = [pc EXCEPT ![c] = "idle"]
              /\ ret' = [ret EXCEPT ![c] = Ret("start_log_stream", "Err", "home_dir")]
              /\ UNCHANGED <<logDir, logExists, logFile, file_size>>
         [] outcome = "dir_failed" ->
              /\ ~logExists /\ ~logDir
              /\ pc' = [pc EXCEPT ![c] = "idle"]
              /\ ret' = [ret EXCEPT ![c] = Ret("start_log_stream", "Err", "create_dir_all")]
              /\ UNCHANGED <<logDir, logExists, logFile, file_size>>
         [] outcome = "file_failed" ->
              /\ ~logExists
              /\ logDir' = TRUE
              /\ pc' = [pc EXCEPT ![c] = "idle"]
              /\ ret' = [ret EXCEPT ![c] = Ret("start_log_stream", "Err", "File::create")]
              /\ UNCHANGED <<logExists, logFile, file_size>>
         [] outcome = "ok" ->
              /\ logDir' = TRUE
              /\ logExists' = TRUE
              /\ logFile' = IF logExists THEN logFile ELSE <<>>
              /\ file_size' = [file_size EXCEPT ![c] = FileLen]
              /\ pc' = [pc EXCEPT ![c] = "ls_init"]
              /\ UNCHANGED ret
    /\ truncated' = (truncated /\ outcome # "ok")
    /\ skipped' = (skipped /\ outcome # "ok")
    /\ UNCHANGED <<appended, truncs, tailVars, procVars, task, snLocals, obsVars>>
    /\ UNCHANGED <<startOff, emitted, dup, emitBy, shortSeen, badResume>>
    /\ UNCHANGED <<ready, poisoned, found>>

\* lines 175-180: take the tracker's lock (waiting for it) and set the cursor
\* (mutant) a cursor that starts at the beginning of the file
InitialPosition_Zero(size) == 0

\* lines 170-180: the cursor starts at the size the file has at start
InitialPosition(size) == size

StartLogStream_InitTracker(c) ==
    /\ pc[c] = "ls_init"
    /\ lock.by = "free"
    /\ position' = InitialPosition(file_size[c])
    /\ startOff' = position'
    /\ emitted' = {}
    /\ dup' = FALSE
    /\ emitBy' = "none"
    /\ shortSeen' = FALSE
    /\ badResume' = FALSE
    /\ skipped' = FALSE
    /\ pc' = [pc EXCEPT ![c] = "ls_spawn"]
    /\ UNCHANGED <<fsVars, lock, running, task_handle, tasks, ev>>
    /\ UNCHANGED <<procVars, ret, lsLocals, snLocals, truncated, obsVars>>
    /\ UNCHANGED <<ready, poisoned, found>>

\* line 189: tokio::spawn of the background task (the runtime's next free id)
StartLogStream_Spawn(c, t) ==
    /\ pc[c] = "ls_spawn"
    /\ FreeTask(t)
    /\ \A u \in TaskIds : FreeTask(u) => t <= u
    /\ tasks' = [tasks EXCEPT ![t] = "setup"]
    /\ ev' = [ev EXCEPT ![t] = FALSE]
    /\ task' = [task EXCEPT ![c] = t]
    /\ pc' = [pc EXCEPT ![c] = "ls_handle"]
    /\ UNCHANGED <<fsVars, position, lock, running, task_handle>>
    /\ UNCHANGED <<procVars, ret, file_size, snLocals, histVars, obsVars>>

\* lines 294-297: set_task_handle, then Ok
StartLogStream_SetTaskHandle(c) ==
    /\ pc[c] = "ls_handle"
    /\ task_handle' = task[c]
    /\ task' = [task EXCEPT ![c] = NoTask]
    /\ pc' = [pc EXCEPT ![c] = "idle"]
    /\ ret' = [ret EXCEPT ![c] = Ret("start_log_stream", "Ok", "started")]
    /\ UNCHANGED <<fsVars, position, lock, running, tasks, ev>>
    /\ UNCHANGED <<procVars, file_size, snLocals, histVars, obsVars>>

\* --------------------------------------------- logger.rs: stop_log_stream
\* (mutant) an abort that cancels nothing
Aborted_Nothing(t) == tasks

\* JoinHandle::abort: the task is cancelled at its next await, that is at once
\* unless it is in the body of the poll loop, which has no await
Aborted(t) ==
    [tasks EXCEPT ![t] = CASE @ \in {"setup", "sleep"} -> "gone"
                           [] @ = "body" -> "bodyCancelled"
                           [] OTHER -> @]

\* lines 305-310: the check of the running flag
StopLogStream(c) ==
    /\ pc[c] = "idle"
    /\ IF is_running
       THEN /\ pc' = [pc EXCEPT ![c] = "ls_abort"]
            /\ ret' = [ret EXCEPT ![c] = NoRet]
       ELSE /\ pc' = pc
            /\ ret' = [ret EXCEPT ![c] = Ret("stop_log_stream", "Err", "not_running")]
    /\ UNCHANGED <<fsVars, tailVars, procVars, lsLocals, snLocals, histVars, obsVars>>

\* WatcherHandle::abort, lines 53-59
StopLogStream_Abort(c) ==
    /\ pc[c] = "ls_abort"
    /\ tasks' = IF task_handle # NoTask THEN Aborted(task_handle) ELSE tasks
    /\ task_handle' = NoTask
    /\ running' = FALSE
    /\ pc' = [pc EXCEPT ![c] = "idle"]
    /\ ret' = [ret EXCEPT ![c] = Ret("stop_log_stream", "Ok", "aborted")]
    /\ UNCHANGED <<fsVars, position, lock, ev>>
    /\ UNCHANGED <<procVars, lsLocals, snLocals, histVars, obsVars>>

\* ------------------------------------------------ process.rs: the cache
\* Time is counted in half seconds.  An age that has reached CACHE_DURATION
\* stays there: the code only compares ages with the two durations below.
CACHE_DURATION == 4
EXPIRE_AFTER == 2
INIT_WAIT == 3
RECHECK_WAIT == 1
TailLimit == 1000

\* (mutant) a scan that finds no worker whatever runs
check_nanobot_running_impl_Never == FALSE

\* check_nanobot_running_impl, lines 378-394
check_nanobot_running_impl == AnyMatching(procs)

\* ProcessCheckCache::new, lines 23-28
ProcessCheckCache_new == [is_running |-> None, last_update |-> None]

\* (mutant) ProcessCheckCache::get trusting an entry of any age
ProcessCheckCache_get_NoTTL(self, scan) ==
    IF self.is_running # None
    THEN [result |-> self.is_running[1], cache |-> self, scanned |-> FALSE]
    ELSE [result |-> scan,
          cache |-> [is_running |-> Some(scan), last_update |-> Some(0)],
          scanned |-> TRUE]

\* ProcessCheckCache::get, lines 30-46: [result, cache, scanned]
ProcessCheckCache_get(self, scan) ==
    IF /\ self.last_update # None
       /\ self.last_update[1] < CACHE_DURATION
       /\ self.is_running # None
    THEN [result |-> self.is_running[1], cache |-> self, scanned |-> FALSE]
    ELSE [result |-> scan,
          cache |-> [is_running |-> Some(scan), last_update |-> Some(0)],
          scanned |-> TRUE]

\* ProcessCheckCache::invalidate, lines 48-51
ProcessCheckCache_invalidate(self) == [is_running |-> None, last_update |-> None]

\* get_cached_nanobot_status, lines 56-67
get_cached_nanobot_status(cell, scan) ==
    ProcessCheckCache_get(IF cell = None THEN ProcessCheckCache_new ELSE cell[1], scan)

\* (mutant) invalidate_cache clearing only an entry older than a second
invalidate_cache_OnlyExpired(cell) ==
    IF cell # None /\ cell[1].last_update # None /\ cell[1].last_update[1] > EXPIRE_AFTER
    THEN Some(ProcessCheckCache_invalidate(cell[1]))
    ELSE cell

\* invalidate_cache, lines 69-77
invalidate_cache(cell) ==
    IF cell # None THEN Some(ProcessCheckCache_invalidate(cell[1])) ELSE cell

\* invalidate_cache_if_expired, lines 80-92
invalidate_cache_if_expired(cell) ==
    IF cell # None /\ cell[1].last_update # None /\ cell[1].last_update[1] > EXPIRE_AFTER
    THEN Some(ProcessCheckCache_invalidate(cell[1]))
    ELSE cell

\* check_nanobot_running, lines 397-399, as the step of a command: g is what
\* get_cached_nanobot_status answers in this state
Checked(g) ==
    /\ cache' = Some(g.cache)
    /\ lastGet' = [pending |-> sinceInval, scanned |-> g.scanned,
                   value |-> g.result, truth |-> check_nanobot_running_impl]
    /\ sinceInval' = (sinceInval /\ ~g.scanned)

Invalidated ==
    /\ cache' = invalidate_cache(cache)
    /\ sinceInval' = TRUE

\* half a second passes
Tick ==
    /\ cache' = IF cache # None /\ cache[1].last_update # None
                   /\ cache[1].last_update[1] < CACHE_DURATION
                THEN Some([cache[1] EXCEPT !.last_update = Some(@[1] + 1)])
                ELSE cache
    /\ timer' = [c \in Callers |-> IF timer[c] > 0 THEN timer[c] - 1 ELSE 0]
    /\ UNCHANGED <<fsVars, tailVars, procs, nanobot_process, pcVars, lsLocals>>
    /\ UNCHANGED <<port, status_running, log_size_before, child, histVars, obsVars>>

\* ------------------------------------------- process.rs: command resolution
\* What the machine answers to find_command: the path `which` prints, the
\* executable found beside the location `pip show` prints, and for each
\* directory of get_user_path, in list order, whether it holds the command.
FindEnvs ==
    [which : {None, Some("which")}, pip : {None, Some("pip")}, dirs : [1..2 -> BOOLEAN]]

\* a machine on which the command is nowhere
NothingInstalled == [which |-> None, pip |-> None, dirs |-> [i \in 1..2 |-> FALSE]]

\* (mutant) a find_command that always finds something
find_command_Always(command, e) == Some("which")

\* (mutant) find_command asking pip before which
find_command_PipFirst(command, e) ==
    IF command = "nanobot" /\ e.pip # None THEN e.pip
    ELSE IF e.which # None THEN e.which
    ELSE IF \E i \in 1..2 : e.dirs[i]
         THEN Some(<<"dir", CHOOSE i \in 1..2 : e.dirs[i] /\ \A j \in 1..2 : e.dirs[j] => i <= j>>)
         ELSE None

\* find_command, lines 291-331
find_command(command, e) ==
    IF e.which # None THEN e.which
    ELSE IF command = "nanobot" /\ e.pip # None THEN e.pip
    ELSE IF \E i \in 1..2 : e.dirs[i]
         THEN Some(<<"dir", CHOOSE i \in 1..2 : e.dirs[i] /\ \A j \in 1..2 : e.dirs[j] => i <= j>>)
         ELSE None

\* the commands the dashboard resolves that a claim speaks of: the worker
\* (lines 431, 1426) and the installer (line 874)
Commands == {"nanobot", "uv"}

\* no find_command has been observed
NotSought == [command |-> "none", e |-> NothingInstalled, path |-> None]

\* a command of the dashboard resolves a command name and reports the path:
\* check_nanobot_usable (lines 1424-1441), download_nanobot_with_uv (874-885)
FindCommand(command, e) ==
    /\ found' = [command |-> command, e |-> e, path |-> find_command(command, e)]
    /\ UNCHANGED <<fsVars, tailVars, procVars, pcVars, lsLocals, snLocals>>
    /\ UNCHANGED <<tailHist, ready, poisoned, obsVars>>

\* -------------------------------------------- process.rs: start_nanobot
RECURSIVE CharBoundaryIn(_, _, _)
CharBoundaryIn(s, start, off) ==
    IF s = <<>> THEN TRUE
    ELSE IF off < start + Head(s).n
         THEN ~Head(s).wide \/ (off - start) % 2 = 0
         ELSE CharBoundaryIn(Tail(s), start + Head(s).n, off)

\* str::is_char_boundary on the file's content
IsCharBoundary(off) == CharBoundaryIn(logFile, 0, off)

\* read_new_log_content, lines 578-601: the byte range of the file the
\* returned string holds, or a panic when the cut of line 594 falls inside a
\* character
read_new_log_content(start_pos) ==
    LET eof  == FileLen
        from == IF start_pos > eof THEN eof ELSE start_pos
    IN  IF eof - from > TailLimit
        THEN [panic |-> ~IsCharBoundary(eof - TailLimit), from |-> eof - TailLimit, to |-> eof]
        ELSE [panic |-> FALSE, from |-> from, to |-> eof]

\* ProcessManager::new, set_running(true), set_start_time, lines 522-526
\* since: how long before the record was stored its start_time lies
NewProcessManager(prt) == [running |-> TRUE, port |-> prt, since |-> 0]

\* the caller's command is over: its child handle is dropped
Dropped(c, table) ==
    IF child[c] # NoPid /\ table[child[c]].st = "dead"
    THEN [table EXCEPT ![child[c]] = NoProc]
    ELSE table

\* the locals of a command that has returned are gone
ForgottenPort(c) ==
    port' = IF pc'[c] = "idle" THEN [port EXCEPT ![c] = 0] ELSE port

ForgottenSize(c) ==
    log_size_before' = IF pc'[c] = "idle" THEN [log_size_before EXCEPT ![c] = 0]
                       ELSE log_size_before

Returned(c, r) ==
    /\ pc' = [pc EXCEPT ![c] = "idle"]
    /\ ret' = [ret EXCEPT ![c] = r]

\* state.nanobot_process.lock().unwrap(), lines 526, 548, 637, 664: what the
\* holder makes of the record, unless the lock is poisoned and unwrap panics
Locked(cell) == IF poisoned.record THEN nanobot_process ELSE cell

\* the panic of unwrap on the PoisonError of the record's lock
LockPanic(op) == Ret(op, "panic", "nanobot_process.lock")

\* lines 403-407: the port, invalidate_cache
StartNanobot(c, prt) ==
    /\ pc[c] = "idle"
    /\ port' = [port EXCEPT ![c] = IF prt = None THEN DefaultPort ELSE prt[1]]
    /\ Invalidated
    /\ Began(c)
    /\ pc' = [pc EXCEPT ![c] = "sn_check"]
    /\ ret' = [ret EXCEPT ![c] = NoRet]
    /\ UNCHANGED <<fsVars, tailVars, procs, nanobot_process, lsLocals>>
    /\ UNCHANGED <<status_running, log_size_before, child, timer, histVars, lastGet>>

\* lines 409-415: already running
StartNanobot_Check(c) ==
    /\ pc[c] = "sn_check"
    /\ LET g == get_cached_nanobot_status(cache, check_nanobot_running_impl)
       IN  /\ Checked(g)
           /\ IF g.result
              THEN Returned(c, Ret("start_nanobot", "already_running", "check"))
              ELSE /\ pc' = [pc EXCEPT ![c] = "sn_find"]
                   /\ UNCHANGED ret
    /\ UNCHANGED <<fsVars, tailVars, procs, nanobot_process, lsLocals>>
    /\ UNCHANGED <<status_running, log_size_before, child, timer>>
    /\ UNCHANGED <<histVars, allUp, allDown>>
    /\ ForgottenPort(c)

\* lines 417-466: the log directory, find_command, the --help self-test
StartNanobot_Resolve(c, home, mkdir, e, help) ==
    /\ pc[c] = "sn_find"
    /\ IF ~home
       THEN /\ Returned(c, Ret("start_nanobot", "Err", "home_dir"))
            /\ UNCHANGED logDir
       ELSE IF ~mkdir /\ ~logDir
       THEN /\ Returned(c, Ret("start_nanobot", "Err", "create_dir_all"))
            /\ UNCHANGED logDir
       ELSE /\ logDir' = TRUE
            /\ IF find_command("nanobot", e) = None
               THEN Returned(c, Ret("start_nanobot", "failed", "not_found"))
               ELSE IF help # "ok"
               THEN Returned(c, Ret("start_nanobot", "failed", "self_test"))
               ELSE /\ pc' = [pc EXCEPT ![c] = "sn_open"]
                    /\ UNCHANGED ret
    /\ UNCHANGED <<logExists, logFile, appended, truncs, tailVars, procVars, lsLocals>>
    /\ UNCHANGED <<status_running, log_size_before, child, timer, histVars, obsVars>>
    /\ ForgottenPort(c)

\* lines 468-478: open the log file for appending (creating it), its size
StartNanobot_Open(c, ok) ==
    /\ pc[c] = "sn_open"
    /\ IF ok
       THEN /\ logExists' = TRUE
            /\ log_size_before' = [log_size_before EXCEPT ![c] = FileLen]
            /\ pc' = [pc EXCEPT ![c] = "sn_spawn"]
            /\ UNCHANGED ret
       ELSE /\ Returned(c, Ret("start_nanobot", "Err", "open"))
            /\ UNCHANGED <<logExists, log_size_before>>
    /\ UNCHANGED <<logDir, logFile, appended, truncs, tailVars, procVars, lsLocals>>
    /\ UNCHANGED <<status_running, child, timer, histVars, obsVars>>
    /\ ForgottenPort(c)

\* lines 480-503: spawn the worker, then sleep 1.5 s
StartNanobot_Spawn(c, p, ok) ==
    /\ pc[c] = "sn_spawn"
    /\ IF ok
       THEN /\ FreePid(p)
            /\ procs' = [procs EXCEPT ![p] = [st |-> "starting", port |-> port[c]]]
            /\ child' = [child EXCEPT ![c] = p]
            /\ timer' = [timer EXCEPT ![c] = INIT_WAIT]
            /\ pc' = [pc EXCEPT ![c] = "sn_wait"]
            /\ UNCHANGED ret
       ELSE /\ p = 1
            /\ Returned(c, Ret("start_nanobot", "failed", "spawn"))
            /\ UNCHANGED <<procs, child, timer>>
    /\ UNCHANGED <<fsVars, tailVars, cache, nanobot_process, lsLocals>>
    /\ UNCHANGED <<status_running, tailHist, obsVars>>
    /\ ForgottenPort(c)
    /\ ForgottenSize(c)
    /\ ready' = IF ok THEN NoReady ELSE ready
    /\ UNCHANGED <<poisoned, found>>

\* lines 505-517 and 566-573: child.try_wait after the sleep; an exited child
\* is reported with what read_new_log_content reads
StartNanobot_TryWait(c, ok) ==
    /\ pc[c] = "sn_wait"
    /\ timer[c] = 0
    /\ IF ~ok
       THEN /\ Returned(c, Ret("start_nanobot", "failed", "try_wait"))
            /\ procs' = Dropped(c, procs)
            /\ child' = [child EXCEPT ![c] = NoPid]
       ELSE IF procs[child[c]].st = "dead"
       THEN /\ LET r == read_new_log_content(log_size_before[c])
               IN  IF r.panic
                   THEN Returned(c, Ret("start_nanobot", "panic", "read_new_log_content"))
                   ELSE Returned(c, RetFull("start_nanobot", "failed", "exited",
                                            Some(<<r.from, r.to>>), None))
            /\ procs' = Dropped(c, procs)
            /\ child' = [child EXCEPT ![c] = NoPid]
       ELSE /\ pc' = [pc EXCEPT ![c] = "sn_recheck"]
            /\ UNCHANGED <<ret, procs, child>>
    /\ UNCHANGED <<fsVars, tailVars, cache, nanobot_process, lsLocals>>
    /\ UNCHANGED <<status_running, timer, histVars, obsVars>>
    /\ ForgottenPort(c)
    /\ ForgottenSize(c)

\* lines 518-541: the child runs; check_nanobot_running; store the record or
\* sleep 500 ms
StartNanobot_Recheck(c) ==
    /\ pc[c] = "sn_recheck"
    /\ LET g == get_cached_nanobot_status(cache, check_nanobot_running_impl)
       IN  /\ Checked(g)
           /\ IF g.result
              THEN /\ nanobot_process' = Locked(Some(NewProcessManager(port[c])))
                   /\ Returned(c, IF poisoned.record THEN LockPanic("start_nanobot")
                                  ELSE RetFull("start_nanobot", "started", "check",
                                               None, Some(port[c])))
                   /\ procs' = Dropped(c, procs)
                   /\ child' = [child EXCEPT ![c] = NoPid]
                   /\ UNCHANGED timer
              ELSE /\ timer' = [timer EXCEPT ![c] = RECHECK_WAIT]
                   /\ pc' = [pc EXCEPT ![c] = "sn_wait2"]
                   /\ UNCHANGED <<ret, nanobot_process, procs, child>>
    /\ UNCHANGED <<fsVars, tailVars, lsLocals, status_running>>
    /\ UNCHANGED <<tailHist, allUp, allDown>>
    /\ ForgottenPort(c)
    /\ ForgottenSize(c)
    /\ ready' = [ready EXCEPT !.started = ready.line # None /\ pc'[c] = "idle"]
    /\ UNCHANGED <<poisoned, found>>

\* lines 543-563: the second check_nanobot_running
StartNanobot_Recheck2(c) ==
    /\ pc[c] = "sn_wait2"
    /\ timer[c] = 0
    /\ LET g == get_cached_nanobot_status(cache, check_nanobot_running_impl)
       IN  /\ Checked(g)
           /\ IF g.result
              THEN /\ nanobot_process' = Locked(Some(NewProcessManager(port[c])))
                   /\ Returned(c, IF poisoned.record THEN LockPanic("start_nanobot")
                                  ELSE RetFull("start_nanobot", "started", "recheck",
                                               None, Some(port[c])))
              ELSE /\ Returned(c, Ret("start_nanobot", "failed", "not_detected"))
                   /\ UNCHANGED nanobot_process
    /\ procs' = Dropped(c, procs)
    /\ child' = [child EXCEPT ![c] = NoPid]
    /\ UNCHANGED <<fsVars, tailVars, lsLocals, status_running, timer>>
    /\ UNCHANGED <<tailHist, allUp, allDown>>
    /\ ForgottenPort(c)
    /\ ForgottenSize(c)
    /\ ready' = [ready EXCEPT !.started = ready.line # None /\ nanobot_process' # nanobot_process]
    /\ UNCHANGED <<poisoned, found>>

\* ---------------------------------------------- process.rs: stop_nanobot
\* lines 605-607: invalidate_cache
StopNanobot(c) ==
    /\ pc[c] = "idle"
    /\ Invalidated
    /\ Began(c)
    /\ pc' = [pc EXCEPT ![c] = "st_check"]
    /\ ret' = [ret EXCEPT ![c] = NoRet]
    /\ UNCHANGED <<fsVars, tailVars, procs, nanobot_process, lsLocals, snLocals>>
    /\ UNCHANGED <<histVars, lastGet>>

\* (mutant) stop_nanobot without the early return of lines 609-614
StopNanobot_Check_KillAnyway(c) ==
    /\ pc[c] = "st_check"
    /\ Checked(get_cached_nanobot_status(cache, check_nanobot_running_impl))
    /\ pc' = [pc EXCEPT ![c] = "st_kill"]
    /\ UNCHANGED ret
    /\ UNCHANGED <<fsVars, tailVars, procs, nanobot_process, lsLocals, snLocals>>
    /\ UNCHANGED <<histVars, allUp, allDown>>

\* lines 609-614: not running
StopNanobot_Check(c) ==
    /\ pc[c] = "st_check"
    /\ LET g == get_cached_nanobot_status(cache, check_nanobot_running_impl)
       IN  /\ Checked(g)
           /\ IF ~g.result
              THEN Returned(c, Ret("stop_nanobot", "not_running", "check"))
              ELSE /\ pc' = [pc EXCEPT ![c] = "st_kill"]
                   /\ UNCHANGED ret
    /\ UNCHANGED <<fsVars, tailVars, procs, nanobot_process, lsLocals, snLocals>>
    /\ UNCHANGED <<histVars, allUp, allDown>>

\* the process table after kill() on every process that shows the fingerprint
RECURSIVE KillAll(_, _)
KillAll(table, ps) ==
    IF ps = {} THEN table
    ELSE LET p == CHOOSE q \in ps : TRUE
         IN  KillAll(IF table[p].st = "up" THEN Exited(table, p) ELSE table, ps \ {p})

\* (mutant) stop_nanobot without the update of the record
SetNotRunning_Keep(cell) == cell

\* ProcessManager::set_running(false) on the record, if there is one
SetNotRunning(cell) ==
    IF cell # None THEN Some([cell[1] EXCEPT !.running = FALSE]) ELSE cell

\* lines 616-650: scan, kill every match, update the record
StopNanobot_Kill(c) ==
    /\ pc[c] = "st_kill"
    /\ LET killed == AnyMatching(procs)
       IN  /\ procs' = KillAll(procs, Pids)
           /\ IF killed
              THEN /\ nanobot_process' = Locked(SetNotRunning(nanobot_process))
                   /\ Returned(c, IF poisoned.record THEN LockPanic("stop_nanobot")
                                  ELSE Ret("stop_nanobot", "stopped", "killed"))
              ELSE /\ UNCHANGED nanobot_process
                   /\ Returned(c, Ret("stop_nanobot", "not_found", "scan"))
    /\ Watched(procs')
    /\ UNCHANGED <<fsVars, tailVars, cache, lsLocals, snLocals, histVars, sinceInval, lastGet>>

\* ------------------------------------------------ process.rs: get_status
\* lines 655-660: invalidate_cache_if_expired, check_nanobot_running
GetStatus(c) ==
    /\ pc[c] = "idle"
    /\ LET g == get_cached_nanobot_status(invalidate_cache_if_expired(cache),
                                          check_nanobot_running_impl)
       IN  /\ Checked(g)
           /\ status_running' = [status_running EXCEPT ![c] = g.result]
    /\ Began(c)
    /\ pc' = [pc EXCEPT ![c] = "gs_record"]
    /\ ret' = [ret EXCEPT ![c] = NoRet]
    /\ UNCHANGED <<fsVars, tailVars, procs, nanobot_process, lsLocals>>
    /\ UNCHANGED <<port, log_size_before, child, timer, histVars>>

\* detect_nanobot_port, lines 735-762: the port of a process that shows the
\* fingerprint (the table is iterated in no fixed order)
DetectedPorts ==
    IF AnyMatching(procs) THEN {procs[p].port : p \in {q \in Pids : Matching(q)}}
    ELSE {DefaultPort}

\* the integers of TimeBits bits, and the cast "as u64" of one of them
I64Min == -(2 ^ (TimeBits - 1))

I64Max == 2 ^ (TimeBits - 1) - 1

as_u64(x) == x % (2 ^ TimeBits)

\* seconds since the epoch, as the wall clock and the process table report them
Stamps == 0 .. I64Max

\* seconds of the monotonic clock behind Instant::now()
Instants == 0 .. 1

\* what get_status reads: t0 the worker's start time (get_nanobot_start_time),
\* t1 the wall clock, inst the monotonic clock
Clocks == [t0 : {None} \cup {Some(t) : t \in Stamps}, t1 : Stamps, inst : Instants]

\* the process table reports no start time
Steady == {[t0 |-> None, t1 |-> 0, inst |-> 0]}

\* lines 672-689: the start instant of a detected worker, as the distance from
\* now back to it; Instant - Duration panics when the result is out of range
synthetic_start(clk) ==
    IF clk.t0 = None
    THEN [panic |-> FALSE, since |-> 0]
    ELSE LET timestamp == clk.t0[1]
             now == clk.t1
             elapsed_secs == now - timestamp
             d == as_u64(elapsed_secs)
         IN  IF clk.inst - d < I64Min
             THEN [panic |-> TRUE, since |-> 0]
             ELSE [panic |-> FALSE, since |-> d]

\* lines 662-731: reconcile the record with what the check said, report
GetStatus_Record(c, prt, clk) ==
    /\ pc[c] = "gs_record"
    /\ prt \in DetectedPorts
    /\ LET s == synthetic_start(clk)
           fresh == ~poisoned.record /\ status_running[c] /\ nanobot_process = None
       IN  /\ nanobot_process' =
                 IF status_running[c]
                 THEN IF nanobot_process = None
                      THEN IF s.panic THEN nanobot_process
                           ELSE Locked(Some([NewProcessManager(prt) EXCEPT !.since = s.since]))
                      ELSE nanobot_process
                 ELSE Locked(SetNotRunning(nanobot_process))
           /\ poisoned' = [poisoned EXCEPT !.record = @ \/ (fresh /\ s.panic)]
           /\ Returned(c, IF poisoned.record THEN LockPanic("get_status")
                          ELSE IF fresh /\ s.panic
                          THEN Ret("get_status", "panic", "synthetic_start")
                          ELSE RetFull("get_status", "Ok",
                                       IF status_running[c] THEN "running" ELSE "not_running",
                                       None,
                                       IF nanobot_process' = None THEN None
                                       ELSE Some(nanobot_process'[1].port)))
    /\ UNCHANGED <<fsVars, tailVars, procs, cache, lsLocals, tailHist, ready, found, obsVars>>
    /\ status_running' = [status_running EXCEPT ![c] = FALSE]
    /\ UNCHANGED <<port, log_size_before, child, timer>>

\* lines 30-46 and 56-66: the scan of get_cached_nanobot_status runs with the
\* cache's lock held; a panic in it leaves the cache as it was and the lock
\* poisoned
GetStatus_ScanPanics(c) ==
    /\ pc[c] = "idle"
    /\ LET cell == invalidate_cache_if_expired(cache)
       IN  /\ get_cached_nanobot_status(cell, check_nanobot_running_impl).scanned
           /\ cache' = IF cell = None THEN Some(ProcessCheckCache_new) ELSE cell
    /\ poisoned' = [poisoned EXCEPT !.cache = TRUE]
    /\ Returned(c, Ret("get_status", "panic", "check_nanobot_running_impl"))
    /\ UNCHANGED <<fsVars, tailVars, procs, nanobot_process, lsLocals, snLocals>>
    /\ UNCHANGED <<tailHist, ready, found, obsVars>>

\* ------------------------------------------------------------ initial state

\* The dashboard may be launched while a worker of an earlier session runs,
\* and with or without a log file left by it.
Init ==
    /\ \E present \in BOOLEAN :
          /\ logDir = present
          /\ logExists = present
          /\ logFile = IF present THEN <<Line(LineBytes, FALSE)>> ELSE <<>>
    /\ appended = 0
    /\ truncs = 0
    /\ position = 0
    /\ lock = Free
    /\ running = FALSE
    /\ task_handle = NoTask
    /\ tasks = [t \in TaskIds |-> "none"]
    /\ ev = [t \in TaskIds |-> FALSE]
    /\ \E worker \in BOOLEAN :
          procs = [p \in Pids |-> IF worker /\ p = 1
                                  THEN [st |-> "up", port |-> DefaultPort]
                                  ELSE NoProc]
    /\ cache = None
    /\ nanobot_process = None
    /\ pc = [c \in Callers |-> "idle"]
    /\ ret = [c \in Callers |-> NoRet]
    /\ file_size = [c \in Callers |-> 0]
    /\ task = [c \in Callers |-> NoTask]
    /\ port = [c \in Callers |-> 0]
    /\ status_running = [c \in Callers |-> FALSE]
    /\ log_size_before = [c \in Callers |-> 0]
    /\ child = [c \in Callers |-> NoPid]
    /\ timer = [c \in Callers |-> 0]
    /\ startOff = 0
    /\ skipped = FALSE
    /\ emitted = {}
    /\ dup = FALSE
    /\ emitBy = "none"
    /\ truncated = FALSE
    /\ shortSeen = FALSE
    /\ badResume = FALSE
    /\ ready = NoReady
    /\ poisoned = NotPoisoned
    /\ found = NotSought
    /\ sinceInval = FALSE
    /\ lastGet = [pending |-> FALSE, scanned |-> FALSE, value |-> FALSE, truth |-> FALSE]
    /\ allUp = [c \in Callers |-> FALSE]
    /\ allDown = [c \in Callers |-> FALSE]

\* ------------------------------------------------- the log-streaming system
LogCommand(c) ==
    \/ StartLogStream(c)
    \/ StartLogStream_SetRunning(c)
    \/ \E o \in {"no_home", "dir_failed", "file_failed", "ok"} : StartLogStream_Prepare(c, o)
    \/ StartLogStream_InitTracker(c)
    \/ \E t \in TaskIds : StartLogStream_Spawn(c, t)
    \/ StartLogStream_SetTaskHandle(c)
    \/ StopLogStream(c)
    \/ StopLogStream_Abort(c)

Tailer(t) ==
    \/ \E ok \in BOOLEAN : TaskSetup(t, ok)
    \/ EventPath(t)
    \/ EventLost(t)
    \/ PollPath(t)

\* One caller issues start_log_stream and stop_log_stream, one after the
\* other, while the tailer runs, a worker writes and the file is truncated.
NextTail ==
    \/ LogCommand("c1")
    \/ \E t \in TaskIds : Tailer(t)
    \/ ReadNewLines_Size
    \/ ReadNewLines_Lines
    \/ \E p \in Pids, n \in LineSizes : WorkerWrite(p, n, FALSE)
    \/ \E k \in 0..MaxLines : Truncate(k)

SpecTail == Init /\ [][NextTail]_vars

\* ---------------------------------------------- the supervision system
StartCommand(c) ==
    \/ \E prt \in {None} \cup {Some(q) : q \in Ports} : StartNanobot(c, prt)
    \/ StartNanobot_Check(c)
    \/ \E home \in BOOLEAN, mkdir \in BOOLEAN, e \in FindEnvs, help \in {"ok", "failed"} :
          StartNanobot_Resolve(c, home, mkdir, e, help)
    \/ \E ok \in BOOLEAN : StartNanobot_Open(c, ok)
    \/ \E p \in Pids, ok \in BOOLEAN : StartNanobot_Spawn(c, p, ok)
    \/ \E ok \in BOOLEAN : StartNanobot_TryWait(c, ok)
    \/ StartNanobot_Recheck(c)
    \/ StartNanobot_Recheck2(c)

ProcessCommand(c) ==
    \/ StartCommand(c)
    \/ StopNanobot(c)
    \/ StopNanobot_Check(c)
    \/ StopNanobot_Kill(c)
    \/ GetStatus(c)
    \/ \E prt \in Ports, clk \in Steady : GetStatus_Record(c, prt, clk)

Workers ==
    \/ \E p \in Pids, prt \in Ports : ExternalStart(p, prt)
    \/ \E p \in Pids : WorkerVisible(p)
    \/ \E p \in Pids : WorkerExit(p)

\* One caller issues start_nanobot, stop_nanobot and get_status while workers
\* come and go and time passes.
NextProc ==
    \/ ProcessCommand("c1")
    \/ Workers
    \/ Tick

SpecProc == Init /\ [][NextProc]_vars

\* what a worker writes at once: a short line, or more than read_new_log_content
\* keeps; in one-byte characters or in two-byte ones
Outputs == {<<LineBytes, FALSE>>, <<TailLimit + 1, FALSE>>, <<TailLimit + 1, TRUE>>}

\* the child of a start_nanobot still under way writes to the log
ChildWrite(c, n, w) ==
    /\ child[c] # NoPid
    /\ appended < MaxOutput
    /\ WorkerWrite(child[c], n, w)

\* One caller starts workers, which write to the log while it waits, and exit.
NextStart ==
    \/ StartCommand("c1")
    \/ \E p \in Pids : WorkerVisible(p)
    \/ \E p \in Pids : WorkerExit(p)
    \/ \E o \in Outputs : ChildWrite("c1", o[1], o[2])
    \/ Tick

SpecStart == Init /\ [][NextStart]_vars

\* the caller starts the worker, until a start_nanobot has returned "started"
\* after the worker wrote a line in its wait
ReadyStart(c) ==
    /\ ~ready.started
    /\ StartCommand(c)

\* from then on the caller starts and stops the log stream
ReadyStream(c) ==
    /\ ready.started
    /\ LogCommand(c)

\* time passing while start_nanobot is under way
StartTick ==
    /\ \E c \in Callers : pc[c] \in {"sn_check", "sn_find", "sn_open", "sn_spawn",
                                      "sn_wait", "sn_recheck", "sn_wait2"}
    /\ Tick

\* One caller starts a worker, which writes to its log, and then starts and
\* stops the log stream, while the tailer runs.
NextReady ==
    \/ ReadyStart("c1")
    \/ ReadyStream("c1")
    \/ \E t \in TaskIds : Tailer(t)
    \/ ReadNewLines_Size
    \/ ReadNewLines_Lines
    \/ \E p \in Pids : WorkerVisible(p)
    \/ \E p \in Pids : WorkerWrite(p, LineBytes, FALSE)
    \/ StartTick

SpecReady == Init /\ [][NextReady]_vars

CacheCommand(c) ==
    \/ StopNanobot(c)
    \/ StopNanobot_Check(c)
    \/ StopNanobot_Kill(c)
    \/ GetStatus(c)
    \/ \E prt \in Ports, clk \in Steady : GetStatus_Record(c, prt, clk)

\* get_status with every reading of the clocks
StatusCommand(c) ==
    \/ GetStatus(c)
    \/ \E prt \in Ports, clk \in Clocks : GetStatus_Record(c, prt, clk)

\* One caller stops workers and asks for their status; the process table
\* reports their start times, and the wall clock may have been set.
NextStatus ==
    \/ StopNanobot("c1")
    \/ StopNanobot_Check("c1")
    \/ StopNanobot_Kill("c1")
    \/ StatusCommand("c1")
    \/ \E p \in Pids, prt \in Ports : ExternalStart(p, prt)
    \/ \E p \in Pids : WorkerExit(p)
    \/ Tick

SpecStatus == Init /\ [][NextStatus]_vars

\* the wall clock was set back by a second after the worker started
SetBack == [t0 |-> Some(1), t1 |-> 0, inst |-> 0]

\* get_status with a panic under either lock
PanickingStatus(c) ==
    \/ GetStatus(c)
    \/ \E prt \in Ports, clk \in Steady \cup {SetBack} : GetStatus_Record(c, prt, clk)
    \/ GetStatus_ScanPanics(c)

\* One caller starts, stops and asks for the status of workers; a get_status
\* may panic while it holds the lock of the cache or of the record.
NextPoison ==
    \/ StartCommand("c1")
    \/ StopNanobot("c1")
    \/ StopNanobot_Check("c1")
    \/ StopNanobot_Kill("c1")
    \/ PanickingStatus("c1")
    \/ Workers
    \/ Tick

SpecPoison == Init /\ [][NextPoison]_vars

\* a machine on which `which` finds the command
Installed == [NothingInstalled EXCEPT !.which = Some("which")]

\* start_nanobot on a machine where the worker is installed and the file
\* system and the spawn do not fail
RacingStart(c) ==
    \/ StartNanobot(c, None)
    \/ StartNanobot_Check(c)
    \/ StartNanobot_Resolve(c, TRUE, TRUE, Installed, "ok")
    \/ StartNanobot_Open(c, TRUE)
    \/ \E p \in Pids : StartNanobot_Spawn(c, p, TRUE)
    \/ StartNanobot_TryWait(c, TRUE)
    \/ StartNanobot_Recheck(c)
    \/ StartNanobot_Recheck2(c)

\* Two callers issue start_nanobot concurrently; the workers they spawn show
\* up in the process table and exit, and time passes.
NextRace ==
    \/ \E c \in Callers : RacingStart(c)
    \/ \E p \in Pids : WorkerVisible(p)
    \/ \E p \in Pids : WorkerExit(p)
    \/ Tick

SpecRace == Init /\ [][NextRace]_vars

\* start_log_stream and stop_log_stream on a machine whose file system does
\* not fail
RacingStream(c) ==
    \/ StartLogStream(c)
    \/ StartLogStream_SetRunning(c)
    \/ StartLogStream_Prepare(c, "ok")
    \/ StartLogStream_InitTracker(c)
    \/ \E t \in TaskIds : StartLogStream_Spawn(c, t)
    \/ StartLogStream_SetTaskHandle(c)
    \/ StopLogStream(c)
    \/ StopLogStream_Abort(c)

\* Two callers start and stop the log stream concurrently while the tasks
\* spawned set up their watchers; the log is left alone.
NextStreamRace ==
    \/ \E c \in Callers : RacingStream(c)
    \/ \E t \in TaskIds : TaskSetup(t, TRUE)

SpecStreamRace == Init /\ [][NextStreamRace]_vars

\* Commands are resolved on machines of every kind.
NextFind == \E command \in Commands, e \in FindEnvs : FindCommand(command, e)

SpecFind == Init /\ [][NextFind]_vars

\* Two callers invalidate, read and refill the cache concurrently.
NextCache ==
    \/ \E c \in Callers : CacheCommand(c)
    \/ \E p \in Pids, prt \in Ports : ExternalStart(p, prt)
    \/ \E p \in Pids : WorkerExit(p)
    \/ Tick

SpecCache == Init /\ [][NextCache]_vars

\* The runtime runs the poll loop again after every sleep, and a read that
\* holds the lock runs to its end; nothing makes the platform deliver a
\* modify event, a caller issue a command or the worker write.
FairTail ==
    /\ \A t \in TaskIds : WF_vars(PollPath(t))
    /\ WF_vars(ReadNewLines_Size)
    /\ WF_vars(ReadNewLines_Lines)

SpecTailFair == SpecTail /\ FairTail

\* A command that has begun runs to its end, and the tailer is scheduled as
\* in FairTail.
FairReady ==
    /\ FairTail
    /\ WF_vars(pc["c1"] # "idle" /\ ReadyStream("c1"))

SpecReadyFair == SpecReady /\ FairReady

\* ------------------------------------------------------- the whole system
\* Every caller issues every command while workers come, write and go, the
\* log file is truncated, the tailer runs and time passes.
Next ==
    \/ \E c \in Callers : LogCommand(c)
    \/ \E c \in Callers : ProcessCommand(c)
    \/ \E c \in Callers : StatusCommand(c)
    \/ \E c \in Callers : GetStatus_ScanPanics(c)
    \/ NextFind
    \/ \E t \in TaskIds : Tailer(t)
    \/ ReadNewLines_Size
    \/ ReadNewLines_Lines
    \/ Workers
    \/ \E p \in Pids, o \in Outputs : WorkerWrite(p, o[1], o[2])
    \/ \E k \in 0..MaxLines : Truncate(k)
    \/ Tick

Spec == Init /\ [][Next]_vars

\* ------------------------------------------------------------------ claims

\* C1: during one streaming session in which the file is only appended to, no
\* byte of the file is emitted twice, and once the tailer has caught up with
\* the file the emitted bytes are exactly those from the offset the cursor
\* started at to the cursor.
C1_NoByteEmittedTwice ==
    ~truncated =>
        /\ ~dup
        /\ (lock.by = "free" /\ position = FileLen) => emitted = startOff .. (position - 1)

\* A tailer task is in its poll loop and has not been cancelled.
Streaming == \E t \in TaskIds : tasks[t] \in {"sleep", "body"}

\* C2: while a tailer task is in its poll loop and the file is only appended
\* to, the tailer eventually has emitted every byte that is in the file at or
\* after the offset the cursor was initialised to, whether or not any modify
\* event is delivered.
C2_AppendedLinesAreEmitted ==
    (Streaming /\ ~truncated)
        ~> (startOff .. (FileLen - 1) \subseteq emitted \/ truncated \/ ~Streaming)

C2_Witness ==
    /\ Streaming
    /\ ~truncated
    /\ emitBy = "poll"
    /\ FileLen > startOff
    /\ emitted = startOff .. (FileLen - 1)

\* C3: when the tailer looks at the file and finds it shorter than the cursor,
\* the cursor is reset to 0 (by the poll path as by the event path), and the
\* next emitted range starts at offset 0.
C3_TruncationResetsCursor ==
    /\ (shortSeen /\ lock.by = "free") => position = 0
    /\ ~badResume

\* C10: start_log_stream called while the watcher is running returns Ok and
\* changes neither the tasks, nor the stored task handle, nor the cursor.
C10_DuplicateStartIsNoOp ==
    [][\A c \in Callers :
          (StartLogStream(c) /\ running) =>
              /\ pc'[c] = "idle"
              /\ ret'[c] = Ret("start_log_stream", "Ok", "already_running")
              /\ UNCHANGED <<tasks, task_handle, position, running>>]_vars

C10_Witness ==
    /\ running
    /\ task_handle # NoTask
    /\ ret["c1"] = Ret("start_log_stream", "Ok", "already_running")


\* C4: after invalidate_cache (called once or several times, by any caller),
\* the cache holds no answer, and the next get_cached_nanobot_status scans the
\* process table and returns what that scan finds, whatever the other caller
\* does to the cache in between.
C4_InvalidateForcesFreshScan ==
    /\ sinceInval => (cache = None \/ cache[1].is_running = None)
    /\ lastGet.pending => (lastGet.scanned /\ lastGet.value = lastGet.truth)

C4_Witness ==
    /\ lastGet.pending
    /\ lastGet.scanned
    /\ lastGet.value
    /\ pc["c1"] = "st_kill"
    /\ pc["c2"] = "gs_record"

\* C5: start_nanobot called while a matching worker runs (and keeps running
\* until the check) returns "already_running"; neither of its steps spawns a
\* process, touches the log file or changes the record.
C5_StartWhileRunning ==
    [][\A c \in Callers :
         /\ (\E prt \in {None} \cup {Some(q) : q \in Ports} : StartNanobot(c, prt))
               => UNCHANGED <<procs, fsVars, nanobot_process>>
         /\ (StartNanobot_Check(c) /\ allUp[c])
               => /\ pc'[c] = "idle"
                  /\ ret'[c] = Ret("start_nanobot", "already_running", "check")
                  /\ UNCHANGED <<procs, fsVars, nanobot_process>>]_vars

C5_Witness ==
    /\ ret["c1"] = Ret("start_nanobot", "already_running", "check")
    /\ pc["c1"] = "idle"
    /\ lastGet.pending
    /\ AnyMatching(procs)
    /\ nanobot_process = None

\* C6: stop_nanobot called while no worker runs (and none appears until the
\* check) returns Ok with "not_running"; neither of its steps signals a
\* process or changes the record; this holds for every such call, the first
\* and the repeated ones alike.
C6_StopWhileNotRunning ==
    [][\A c \in Callers :
         /\ StopNanobot(c) => UNCHANGED <<procs, fsVars, nanobot_process>>
         /\ (StopNanobot_Check(c) /\ allDown[c])
               => /\ pc'[c] = "idle"
                  /\ ret'[c] = Ret("stop_nanobot", "not_running", "check")
                  /\ UNCHANGED <<procs, fsVars, nanobot_process>>]_vars

C6_Witness ==
    /\ \A c \in Callers : ret[c] = Ret("stop_nanobot", "not_running", "check")
    /\ \A c \in Callers : pc[c] = "idle"
    /\ ~AnyMatching(procs)
    /\ nanobot_process # None

\* C9: when nothing on the machine resolves the worker command (not `which`,
\* not pip, none of the search directories), start_nanobot returns "failed"
\* with the not-found message, spawns nothing, and the log file is neither
\* created nor modified.
C9_CommandNotFound ==
    [][\A c \in Callers, mkdir \in BOOLEAN, help \in {"ok", "failed"} :
         (/\ StartNanobot_Resolve(c, TRUE, mkdir, NothingInstalled, help)
          /\ mkdir \/ logDir)
            => /\ pc'[c] = "idle"
               /\ ret'[c] = Ret("start_nanobot", "failed", "not_found")
               /\ UNCHANGED <<procs, logExists, logFile, nanobot_process>>]_vars

C9_Witness ==
    /\ ret["c1"] = Ret("start_nanobot", "failed", "not_found")
    /\ pc["c1"] = "idle"
    /\ logDir
    /\ ~logExists
    /\ ~AnyMatching(procs)

\* C8: when the spawned worker has exited by the time start_nanobot looks at
\* it after the wait, start_nanobot returns "failed" with a message holding
\* what the log file gained since the spawn (the bytes from the pre-spawn
\* length on, cut to the last TailLimit), and stores no record.
C8_ExitedChildReportsOutput ==
    [][\A c \in Callers :
         (StartNanobot_TryWait(c, TRUE) /\ procs[child[c]].st = "dead")
            => /\ pc'[c] = "idle"
               /\ ret'[c] = RetFull("start_nanobot", "failed", "exited",
                                    Some(<<IF FileLen - log_size_before[c] > TailLimit
                                           THEN FileLen - TailLimit
                                           ELSE log_size_before[c], FileLen>>),
                                    None)
               /\ UNCHANGED nanobot_process]_vars

\* the bytes of the line the worker wrote during start_nanobot's wait
ReadyRange ==
    IF ready.line = None THEN {} ELSE ready.line[1][1] .. (ready.line[1][2] - 1)

\* C7 (as stated): the line the worker wrote during the wait of a
\* start_nanobot that returned "started" is eventually emitted by the
\* streaming session a later start_log_stream begins.
C7_ReadyLineIsDelivered ==
    (ready.called /\ Streaming) ~> (ReadyRange \subseteq emitted \/ ~Streaming)

\* C7 (amended): the session such a start_log_stream begins has its cursor
\* start at or after the end of that line, and emits no byte of it.
C7_ReadyLineIsBeforeTheCursor ==
    (ready.called /\ Streaming)
        => /\ startOff >= ready.line[1][2]
           /\ ReadyRange \cap emitted = {}

C7_Witness ==
    /\ ready.called
    /\ Streaming
    /\ lock.by = "free"
    /\ position = FileLen
    /\ emitBy = "poll"
    /\ emitted = ready.line[1][2] .. (FileLen - 1)
    /\ emitted # {}

\* the stream is stopped and no command is under way
Stopped ==
    /\ ~running
    /\ task_handle = NoTask
    /\ \A c \in Callers : pc[c] = "idle"

\* no task is left and no read is in progress
Quiet ==
    /\ lock.by = "free"
    /\ \A t \in TaskIds : tasks[t] \in {"none", "gone"}

\* C11: stop_log_stream on a running stream leaves the running flag false and
\* the handle empty and cancels the task: no task is left waiting or about to
\* read; the read already in progress ends, after which nothing is emitted
\* and the cursor does not move until a stream is started again.
C11_StopEndsTheTailer ==
    /\ [][\A c \in Callers : StopLogStream_Abort(c) =>
            /\ ~running'
            /\ task_handle' = NoTask
            /\ pc'[c] = "idle"
            /\ ret'[c] = Ret("stop_log_stream", "Ok", "aborted")
            /\ \A t \in TaskIds : tasks'[t] \notin {"setup", "sleep", "body"}]_vars
    /\ [][(Stopped /\ Quiet) => (emitted' = emitted /\ position' = position)]_vars
    /\ Stopped ~> (Quiet \/ ~Stopped)

C11_Witness ==
    /\ Stopped
    /\ ret["c1"] = Ret("stop_log_stream", "Ok", "aborted")
    /\ \E t \in TaskIds : tasks[t] = "bodyCancelled"
    /\ lock.pc = "lines"
    /\ FileLen > position

\* C12: stop_log_stream called while the WatcherHandle is not running returns
\* an error and changes neither the running flag, nor the task handle, nor
\* the cursor, nor any task.
C12_StopWhileStoppedIsAnError ==
    [][\A c \in Callers : (StopLogStream(c) /\ ~running) =>
          /\ pc'[c] = "idle"
          /\ ret'[c] = Ret("stop_log_stream", "Err", "not_running")
          /\ UNCHANGED <<running, task_handle, position, tasks, lock>>]_vars

C12_Witness ==
    /\ ret["c1"] = Ret("stop_log_stream", "Err", "not_running")
    /\ pc["c1"] = "idle"
    /\ ~running
    /\ task_handle = NoTask
    /\ position > 0
    /\ emitted # {}

\* C13: a failed spawn, a failed self-test and a worker found dead after the
\* wait each make start_nanobot return a result with status "failed"; a call
\* that has spawned never comes back to the spawn; none of the three creates
\* or changes the record.
C13_FailuresAreStructured ==
    [][\A c \in Callers :
         /\ StartNanobot_Spawn(c, 1, FALSE)
               => /\ pc'[c] = "idle"
                  /\ ret'[c] = Ret("start_nanobot", "failed", "spawn")
                  /\ UNCHANGED <<procs, nanobot_process>>
         /\ (\E e \in FindEnvs :
               /\ find_command("nanobot", e) # None
               /\ StartNanobot_Resolve(c, TRUE, TRUE, e, "failed"))
               => /\ pc'[c] = "idle"
                  /\ ret'[c] = Ret("start_nanobot", "failed", "self_test")
                  /\ UNCHANGED <<procs, nanobot_process>>
         /\ (StartNanobot_TryWait(c, TRUE) /\ procs[child[c]].st = "dead")
               => /\ pc'[c] = "idle"
                  /\ ret'[c].op = "start_nanobot"
                  /\ ret'[c].status = "failed"
                  /\ UNCHANGED nanobot_process
         /\ pc[c] \in {"sn_wait", "sn_recheck", "sn_wait2"}
               => pc'[c] \in {"sn_wait", "sn_recheck", "sn_wait2", "idle"}]_vars

\* ------------------------------------------------------------------- C14
\* C14: a panic of a caller that holds the lock of the cache or the lock of
\* the record does not wedge later calls: every later start_nanobot,
\* stop_nanobot and get_status acquires the lock and returns a result, i.e. no
\* command that ends while a lock is poisoned ends in the panic of unwrap on
\* that lock.
C14_PoisonedLocksAreRecovered ==
    [][\A c \in Callers :
          (/\ poisoned.cache \/ poisoned.record
           /\ pc[c] # "idle"
           /\ pc'[c] = "idle")
          => ret'[c] # LockPanic(ret'[c].op)]_vars

\* ------------------------------------------------------------------- C15
\* C15: when get_status stores the record of a worker it did not start, whose
\* start time the process table reports as T0 while the wall clock reads T1,
\* the call returns and the record's start instant lies T1 - T0 seconds
\* before now.
C15_SyntheticStartIsElapsed ==
    [][\A c \in Callers, prt \in Ports, clk \in Clocks :
          (/\ GetStatus_Record(c, prt, clk)
           /\ status_running[c]
           /\ nanobot_process = None
           /\ ~poisoned.record
           /\ clk.t0 # None)
          => /\ ret'[c].status = "Ok"
             /\ nanobot_process' # None
             /\ nanobot_process'[1].since = clk.t1 - clk.t0[1]]_vars

\* ------------------------------------------------------------------- C16
\* C16: the first get_status a caller issues after its stop_nanobot returned
\* "stopped" reports a value scanned after the stop: its check does not
\* answer from the cache, which holds nothing newer than the scan stop_nanobot
\* made before it killed.
C16_StatusAfterStopIsFresh ==
    [][\A c \in Callers :
          (/\ ret[c] = Ret("stop_nanobot", "stopped", "killed")
           /\ GetStatus(c))
          => /\ lastGet'.scanned
             /\ status_running'[c] = AnyMatching(procs)]_vars

\* ------------------------------------------------------------------- C17
\* C17: the checks start_nanobot makes after the spawn use a scan made after
\* the spawn: the first scans, and the second scans or answers from the scan
\* of the first; neither answers from what the check before the spawn cached.
C17_RecheckScans ==
    [][\A c \in Callers :
          /\ StartNanobot_Recheck(c) => lastGet'.scanned
          /\ StartNanobot_Recheck2(c) => (lastGet'.scanned \/ lastGet.scanned)]_vars

\* ------------------------------------------------------------------- C18
\* C18: while the running flag is true and the handle of a spawned task is
\* stored, that task has not ended.
C18_OnlyAbortEndsTheTask ==
    (running /\ task_handle # NoTask) => tasks[task_handle] # "gone"

\* ------------------------------------------------------------------- C19
\* C19: the kill step of stop_nanobot leaves no process showing the
\* fingerprint; if it found one it sets the record's running to false, where
\* there is a record, and returns "stopped"; if it found none it returns
\* "not_found" and leaves the record as it was.
C19_StopKillsEveryMatch ==
    [][\A c \in Callers :
          StopNanobot_Kill(c) =>
             /\ ~AnyMatching(procs')
             /\ \A p \in Pids : ~Matching(p) => procs'[p] = procs[p]
             /\ IF AnyMatching(procs)
                THEN /\ ret'[c] = Ret("stop_nanobot", "stopped", "killed")
                     /\ nanobot_process # None =>
                           /\ nanobot_process' # None
                           /\ ~nanobot_process'[1].running
                           /\ nanobot_process'[1].port = nanobot_process[1].port
                     /\ nanobot_process = None => nanobot_process' = None
                ELSE /\ ret'[c] = Ret("stop_nanobot", "not_found", "scan")
                     /\ nanobot_process' = nanobot_process]_vars

\* a record said a worker was running; stop_nanobot has killed every worker
C19_Witness ==
    /\ ret["c1"] = Ret("stop_nanobot", "stopped", "killed")
    /\ pc["c1"] = "idle"
    /\ nanobot_process # None
    /\ ~nanobot_process[1].running
    /\ ~AnyMatching(procs)

\* ------------------------------------------------------------------- C20
\* C20: when get_status reports running = true while a worker shows the
\* fingerprint, the port it reports is the port of such a worker.
C20_StatusReportsTheRunningWorker ==
    [][\A c \in Callers, prt \in Ports, clk \in Clocks :
          (/\ GetStatus_Record(c, prt, clk)
           /\ ret'[c].status = "Ok"
           /\ ret'[c].via = "running"
           /\ AnyMatching(procs))
          => \E p \in Pids : Matching(p) /\ ret'[c].port = Some(procs[p].port)]_vars

\* ------------------------------------------------------------------- C21
\* the entry the cache holds is younger than the TTL
Young(cell) ==
    /\ cell # None
    /\ cell[1].is_running # None
    /\ cell[1].last_update # None
    /\ cell[1].last_update[1] < CACHE_DURATION

\* what a check made on the cache cell has to do
CacheContract(cell) ==
    IF Young(cell)
    THEN /\ ~lastGet'.scanned
         /\ lastGet'.value = cell[1].is_running[1]
         /\ cache' = cell
    ELSE /\ lastGet'.scanned
         /\ lastGet'.value = check_nanobot_running_impl
         /\ cache' = Some([is_running |-> Some(check_nanobot_running_impl),
                           last_update |-> Some(0)])

\* C21: every check of start_nanobot, stop_nanobot and get_status answers with
\* the stored boolean, without a scan, iff the cache holds an entry younger
\* than the TTL; otherwise it scans the process table and stores the result
\* with age zero before it answers.
C21_CacheHitIffYoung ==
    [][\A c \in Callers :
          /\ (\/ StartNanobot_Check(c)
              \/ StartNanobot_Recheck(c)
              \/ StartNanobot_Recheck2(c)
              \/ StopNanobot_Check(c)) => CacheContract(cache)
          /\ GetStatus(c) =>
                /\ CacheContract(invalidate_cache_if_expired(cache))
                /\ status_running'[c] = lastGet'.value]_vars

\* get_status has just been answered "running" from an entry stored before
\* the worker exited
C21_Witness ==
    /\ pc["c1"] = "gs_record"
    /\ status_running["c1"]
    /\ ~lastGet.scanned
    /\ ~AnyMatching(procs)
    /\ cache # None /\ cache[1].last_update = Some(EXPIRE_AFTER)

\* ------------------------------------------------------------------- C22
\* C22: once start_log_stream has set the cursor, no step lowers it except
\* the read that finds the file shorter than the cursor, which sets it to 0;
\* both the event path and the poll path read through ReadNewLines_Size and
\* ReadNewLines_Lines.
C22_CursorIsMonotone ==
    [][\/ position' >= position
       \/ /\ ReadNewLines_Size
          /\ FileLen < position
          /\ position' = 0
       \/ \E c \in Callers : StartLogStream_InitTracker(c)]_vars

\* a session whose cursor was reset by a read and has advanced again
C22_Witness ==
    /\ running
    /\ lock.by = "free"
    /\ position > 0
    /\ position < startOff
    /\ emitBy = "poll"

\* ------------------------------------------------------------------- C23
\* C23: start_log_stream leaves the log directory and the log file in place
\* (a missing file is created empty), measures the file and sets the cursor
\* to the size measured; while the file has not been truncated since, the
\* session emits no byte below that size (startOff and emitted are those of
\* the session once its cursor is set, i.e. outside "ls_init").
C23_HistoryIsNotStreamed ==
    /\ [][\A c \in Callers :
             StartLogStream_Prepare(c, "ok") =>
                /\ logDir' /\ logExists'
                /\ ~logExists => logFile' = <<>>
                /\ logExists => logFile' = logFile
                /\ file_size'[c] = SumLen(logFile')]_vars
    /\ [][\A c \in Callers :
             StartLogStream_InitTracker(c) => position' = file_size[c]]_vars
    /\ []((~truncated /\ \A c \in Callers : pc[c] # "ls_init")
            => \A b \in emitted : b >= startOff)

\* a session that started on a file with content has emitted what was
\* appended since
C23_Witness ==
    /\ running
    /\ task_handle # NoTask
    /\ ~truncated
    /\ startOff > 0
    /\ emitted # {}
    /\ position > startOff

C25_FirstSuccessWins ==
    found.command # "none" =>
        LET e == found.e
            pipAsked == found.command = "nanobot"
        IN  /\ e.which # None => found.path = e.which
            /\ (e.which = None /\ pipAsked /\ e.pip # None) => found.path = e.pip
            /\ (e.which = None /\ ~(pipAsked /\ e.pip # None)) =>
                  /\ e.dirs[1] => found.path = Some(<<"dir", 1>>)
                  /\ (~e.dirs[1] /\ e.dirs[2]) => found.path = Some(<<"dir", 2>>)
                  /\ (~e.dirs[1] /\ ~e.dirs[2]) => found.path = None

\* "uv" resolved on a machine where which finds nothing, pip would, and only
\* the second directory of the list holds the command
C25_Witness ==
    /\ found.command = "uv"
    /\ found.e.which = None
    /\ found.e.pip # None
    /\ ~found.e.dirs[1]
    /\ found.path = Some(<<"dir", 2>>)

\* ------------------------------------------------------------------- C26
\* the callers whose start_nanobot under way has spawned a worker that runs
Spawners == {c \in Callers : child[c] # NoPid /\ procs[child[c]].st \in {"starting", "up"}}

\* C26: of the start_nanobot calls under way at any time, at most one has
\* spawned a worker.
C26_OneSpawnPerRace == Cardinality(Spawners) <= 1

\* ------------------------------------------------------------------- C27
\* the tailer tasks that run and have not been cancelled
AliveTasks == {t \in TaskIds : tasks[t] \in {"setup", "sleep", "body"}}

\* C27: at most one tailer task is alive at any time, and none is while the
\* running flag is false.
C27_OneTailerUnderTheFlag ==
    /\ Cardinality(AliveTasks) <= 1
    /\ ~running => AliveTasks = {}

\* ------------------------------------------------------------------- C28
\* C28: when start_nanobot returns "failed" after it has spawned a worker,
\* that worker does not run any more.
C28_FailedStartLeavesNoWorker ==
    [][\A c \in Callers :
          (/\ pc[c] # "idle"
           /\ pc'[c] = "idle"
           /\ ret'[c].op = "start_nanobot"
           /\ ret'[c].status = "failed"
           /\ child[c] # NoPid)
          => procs'[child[c]].st \notin {"starting", "up"}]_vars

\* ------------------------------------------------------------------- C29
\* C29: when start_log_stream returns an error the running flag is false, so
\* that the next start_log_stream starts the stream.
C29_FailedStartClearsTheFlag ==
    [][\A c \in Callers :
          (/\ pc[c] # "idle"
           /\ pc'[c] = "idle"
           /\ ret'[c].op = "start_log_stream"
           /\ ret'[c].status = "Err")
          => ~running']_vars

\* ------------------------------------------------------------------- C30
\* C30: when get_status returns and a record exists, the record's running
\* flag is the running value get_status returned.
C30_RecordAgreesWithStatus ==
    [][\A c \in Callers :
          (/\ pc[c] = "gs_record"
           /\ pc'[c] = "idle"
           /\ ret'[c].status = "Ok"
           /\ nanobot_process' # None)
          => nanobot_process'[1].running = (ret'[c].via = "running")]_vars

=============================================================================
